---- MODULE Spec2Model ----
(***************************************************************************)
(* Model of ACESEXRSaveOCIO (aces_exr_save_ocio.py): the OCIO config       *)
(* resolver with its on-disk cache, the colour-space converter and the     *)
(* EXR save loop.                                                          *)
(*                                                                         *)
(* Conventions.  Python None is the string "None".  Russian string        *)
(* literals of the source are transliterated to ASCII:                     *)
(*   "Без конвертации" -> "Bez konvertatsii",  "недоступна" ->             *)
(*   "nedostupna",  "ОШИБКА" -> "OSHIBKA",  "Ошибка EXR" -> "Oshibka EXR". *)
(* Pixel samples and matrix coefficients are fixed-point integers in units  *)
(* of 1/10000 (the float32 arithmetic of numpy, quantised); products are    *)
(* floored back to that unit.                                              *)
(***************************************************************************)
EXTENDS Integers, Sequences, FiniteSets, TLC

VARIABLES
  cache,    \* ocio_cache_dir: function  cache file name -> size in bytes
  fs,       \* local configuration files that exist on disk (set of paths)
  outdir,   \* output_dir: function  EXR file name -> "complete" | "partial"
  prev,     \* the download_ocio_config invocation before the one of last, if any
  last,     \* the last operation: its name, arguments and result; last.dl is
            \* its download_ocio_config invocation, if it made one
  procs,    \* download_ocio_config calls that run concurrently on the same
            \* cache directory: for each caller, its position and locals
  job       \* a save_aces_exr request in progress: its position and locals

vars == <<cache, fs, outdir, prev, last, procs, job>>

None == "None"

----------------------------------------------------------------------------
(* Bounds of the model *)

MaxFrames == 3
MaxPixels == 2

----------------------------------------------------------------------------
(* ConfigResolver: constants *)

Url13CG == "https://github.com/AcademySoftwareFoundation/OpenColorIO-Config-ACES/releases/download/v2.1.0-v2.2.0/cg-config-v2.2.0_aces-v1.3_ocio-v2.4.ocio"
Url13Studio == "https://github.com/AcademySoftwareFoundation/OpenColorIO-Config-ACES/releases/download/v2.1.0-v2.2.0/studio-config-v2.2.0_aces-v1.3_ocio-v2.4.ocio"
Url20CG == "https://github.com/AcademySoftwareFoundation/OpenColorIO-Config-ACES/releases/download/v3.0.0/cg-config-v3.0.0_aces-v2.0_ocio-v2.4.ocio"
Url20Studio == "https://github.com/AcademySoftwareFoundation/OpenColorIO-Config-ACES/releases/download/v3.0.0/studio-config-v3.0.0_aces-v2.0_ocio-v2.4.ocio"

\* self.preset_ocio_urls
preset_ocio_urls ==
  [p \in {"ACES 1.3 CG Config", "ACES 1.3 Studio Config",
          "ACES 2.0 CG Config", "ACES 2.0 Studio Config"} |->
     CASE p = "ACES 1.3 CG Config"     -> Url13CG
       [] p = "ACES 1.3 Studio Config" -> Url13Studio
       [] p = "ACES 2.0 CG Config"     -> Url20CG
       [] p = "ACES 2.0 Studio Config" -> Url20Studio]

\* preset_ocio_urls.get(preset): None for a name that is not a key
preset_get(preset) ==
  IF preset \in DOMAIN preset_ocio_urls THEN preset_ocio_urls[preset] ELSE None

\* a URL a user types into ocio_config_url
UserUrl == "https://example.com/config.ocio"

\* hashlib.md5(url.encode()).hexdigest()[:8], tabulated for the URLs of the model
url_hash(url) ==
  CASE url = Url13CG     -> "8fc0c499"
    [] url = Url13Studio -> "130073c4"
    [] url = Url20CG     -> "f2332c25"
    [] url = Url20Studio -> "ef097409"
    [] url = UserUrl     -> "eaf02bf7"

\* f"{preset.lower().replace(' ', '_')}.ocio"
preset_hint(preset) ==
  CASE preset = "ACES 1.3 CG Config"     -> "aces_1.3_cg_config.ocio"
    [] preset = "ACES 1.3 Studio Config" -> "aces_1.3_studio_config.ocio"
    [] preset = "ACES 2.0 CG Config"     -> "aces_2.0_cg_config.ocio"
    [] preset = "ACES 2.0 Studio Config" -> "aces_2.0_studio_config.ocio"

\* the default of download_ocio_config's filename_hint parameter
DefaultHint == "config.ocio"

\* the hint find_or_download_ocio_config passes in Auto mode
AutoHint == "aces13_cg.ocio"

\* auto_paths, in list order (the last one after os.path.expanduser)
auto_paths ==
  << "./ocio_configs/cg-config-v2.2.0_aces-v1.3_ocio-v2.4.ocio",
     "./ocio_configs/studio-config-v2.2.0_aces-v1.3_ocio-v2.4.ocio",
     "./ocio_configs/config.ocio",
     "./ocio_configs/aces_1.2/config.ocio",
     "/home/user/ComfyUI/ocio_configs/cg-config-v2.2.0_aces-v1.3_ocio-v2.4.ocio" >>

\* a downloaded file below this size is rejected
MinConfigSize == 1000

----------------------------------------------------------------------------
(* ConfigResolver: the file system and the network *)

\* a cache check that never finds the file
exists_never(d, path) == FALSE

\* os.path.exists(path) for a file of a directory d (a function name -> content)
exists(d, path) == path \in DOMAIN d

\* open(path, 'wb') followed by a write of size bytes: creates or truncates
write_file(d, path, size) ==
  [f \in DOMAIN d \cup {path} |-> IF f = path THEN size ELSE d[f]]

\* os.remove(path)
remove_file(d, path) == [f \in DOMAIN d \ {path} |-> d[f]]

\* What the network does with one GET: urlopen raises HTTPError or URLError,
\* or it answers and response.read() then raises (timeout, reset connection),
\* or the whole body of net.size bytes arrives.
NetOutcomes ==
  { [kind |-> "HTTPError", size |-> 0],
    [kind |-> "URLError",  size |-> 0],
    [kind |-> "ReadError", size |-> 0],
    [kind |-> "OK", size |-> 999],
    [kind |-> "OK", size |-> 1000] }

----------------------------------------------------------------------------
(* ConfigResolver: download_ocio_config *)

\* cache_filename = f"ocio_{url_hash}_{filename_hint}"; cache_path joins it
\* to ocio_cache_dir, which is the directory the variable cache models
cache_path(url, filename_hint) ==
  "ocio_" \o url_hash(url) \o "_" \o filename_hint

\* the size check with the threshold one byte too low
too_small_below(file_size) == file_size < MinConfigSize - 1

\* if file_size < 1000
too_small(file_size) == file_size < MinConfigSize

\* The body of the try block: the cache it leaves, the value it returns,
\* the exception it raises (None: none), the GETs it issues, cache hit or not.
download_try(c, url, filename_hint, net) ==
  LET p == cache_path(url, filename_hint) IN
  IF exists(c, p)
  THEN [cache |-> c, ret |-> p, exc |-> None, requests |-> 0, hit |-> TRUE]
  ELSE CASE net.kind = "HTTPError" ->
              [cache |-> c, ret |-> None, exc |-> "HTTPError",
               requests |-> 1, hit |-> FALSE]
         [] net.kind = "URLError" ->
              [cache |-> c, ret |-> None, exc |-> "URLError",
               requests |-> 1, hit |-> FALSE]
         [] net.kind = "ReadError" ->
              \* open(cache_path, 'wb') has created the file; read() raises
              [cache |-> write_file(c, p, 0), ret |-> None, exc |-> "Exception",
               requests |-> 1, hit |-> FALSE]
         [] net.kind = "OK" ->
              LET written == write_file(c, p, net.size) IN
              IF too_small(written[p])
              THEN [cache |-> remove_file(written, p), ret |-> None,
                    exc |-> "Exception", requests |-> 1, hit |-> FALSE]
              ELSE [cache |-> written, ret |-> p, exc |-> None,
                    requests |-> 1, hit |-> FALSE]

\* the except clauses without the final "except Exception"
download_handlers_specific == {"HTTPError", "URLError"}

\* the except clauses: HTTPError, URLError, Exception
download_handlers == {"HTTPError", "URLError", "Exception"}

\* download_ocio_config(url, filename_hint): a caught exception returns None
download_ocio_config(c, url, filename_hint, net) ==
  LET r == download_try(c, url, filename_hint, net) IN
  [cache |-> r.cache,
   ret |-> r.ret,
   raised |-> IF r.exc \in download_handlers THEN None ELSE r.exc,
   requests |-> r.requests,
   hit |-> r.hit,
   url |-> url,
   hint |-> filename_hint,
   path |-> cache_path(url, filename_hint)]

----------------------------------------------------------------------------
(* ConfigResolver: find_or_download_ocio_config *)

\* Python truthiness of a str
truthy(s) == s # "" /\ s # None

\* the probe loop without its break: the last existing path wins
RECURSIVE last_existing(_, _)
last_existing(files, i) ==
  IF i > Len(auto_paths) THEN None
  ELSE LET rest == last_existing(files, i + 1) IN
       IF rest # None THEN rest
       ELSE IF auto_paths[i] \in files THEN auto_paths[i] ELSE None

\* for auto_path in auto_paths: if os.path.exists(auto_path): ...; break
RECURSIVE first_existing(_, _)
first_existing(files, i) ==
  IF i > Len(auto_paths) THEN None
  ELSE IF auto_paths[i] \in files THEN auto_paths[i]
  ELSE first_existing(files, i + 1)

\* the result of a branch that calls download_ocio_config (dl: that call)
via_download(dl) ==
  [cache |-> dl.cache, ret |-> dl.ret, raised |-> dl.raised,
   requests |-> dl.requests, dl |-> <<dl>>]

\* a branch that never calls download_ocio_config: no request, cache as it was
no_download(c, ret) ==
  [cache |-> c, ret |-> ret, raised |-> None, requests |-> 0, dl |-> <<>>]

\* mutation of local_lookup: the path is taken without the exists test
local_lookup_unchecked(files, path) == path

\* "Local Path" with a non-empty path: os.path.exists decides
local_lookup(files, path) == IF path \in files THEN path ELSE None

find_or_download_ocio_config(c, files, source, path, url, preset, net) ==
  IF source = "Local Path" /\ truthy(path)
  THEN no_download(c, local_lookup(files, path))
  ELSE IF source = "URL" /\ truthy(url)
  THEN via_download(download_ocio_config(c, url, DefaultHint, net))
  ELSE IF source = "Preset"
  THEN LET preset_url == preset_get(preset) IN
       IF truthy(preset_url)
       THEN via_download(download_ocio_config(c, preset_url, preset_hint(preset), net))
       ELSE no_download(c, None)
  ELSE IF source = "Auto"
  THEN LET found == first_existing(files, 1) IN
       IF truthy(found)
       THEN no_download(c, found)
       ELSE via_download(download_ocio_config(
                           c, preset_ocio_urls["ACES 1.3 CG Config"], AutoHint, net))
  ELSE no_download(c, None)

----------------------------------------------------------------------------
(* Inputs of the resolver *)

\* (url, filename_hint) of a direct call: the pairs the node itself passes
DownloadInputs ==
  { <<Url13CG, DefaultHint>>, <<UserUrl, DefaultHint>>,
    <<Url13CG, preset_hint("ACES 1.3 CG Config")>>, <<Url13CG, AutoHint>> }

\* a path a user types into ocio_config_path
LocalPath == "/studio/ocio/config.ocio"

\* (source, path, url, preset) as the node's widgets can deliver them; a widget
\* the chosen source does not read keeps its default
ResolveInputs ==
       { [source |-> "Auto", path |-> "", url |-> "", preset |-> "ACES 1.3 CG Config"] }
  \cup { [source |-> "Local Path", path |-> p, url |-> "", preset |-> "ACES 1.3 CG Config"] :
           p \in {"", LocalPath} }
  \cup { [source |-> "URL", path |-> "", url |-> u, preset |-> "ACES 1.3 CG Config"] :
           u \in {"", UserUrl, Url13CG} }
  \cup { [source |-> "Preset", path |-> "", url |-> "", preset |-> p] :
           p \in {"ACES 1.3 CG Config", "ACES 0.7 Config"} }

\* which local files exist while the node runs
FsChoices ==
  { {}, {auto_paths[2], auto_paths[5], LocalPath} }

\* what the log keeps of one download_ocio_config invocation
call_record(dl) ==
  [url |-> dl.url, hint |-> dl.hint, path |-> dl.path, ret |-> dl.ret,
   requests |-> dl.requests, hit |-> dl.hit]

\* the invocation log of an operation: << >> or one call_record
logged(dl) == IF dl = << >> THEN << >> ELSE <<call_record(dl[1])>>

\* the most recent invocation once a further operation starts
shifted(p, l) == IF l.dl = << >> THEN p ELSE l.dl

NoOp == [op |-> "none", dl |-> << >>]

\* the callers that share the cache directory
Procs == {"A", "B"}

\* a caller before its call of download_ocio_config.  pc: the statement it is
\* at; resp: the open HTTP response; linked: its open file is still the one
\* the cache path names; late: the call started when a downloaded, validated
\* and returned file was in place (history, not a local of the code)
NotCalled ==
  [pc |-> "idle", resp |-> << >>, linked |-> FALSE, ret |-> None,
   hit |-> FALSE, late |-> FALSE, wrote |-> FALSE]

\* no save request in progress
NoJob == [pc |-> "idle"]

Init ==
  /\ cache = << >>
  /\ fs \in FsChoices
  /\ outdir = << >>
  /\ prev = << >>
  /\ last = NoOp
  /\ procs = [p \in Procs |-> NotCalled]
  /\ job = NoJob

\* a direct call of download_ocio_config(url, filename_hint)
DownloadCall ==
  \E in \in DownloadInputs, net \in NetOutcomes :
    LET url == in[1]
        hint == in[2]
        r == download_ocio_config(cache, url, hint, net) IN
    /\ cache' = r.cache
    /\ prev' = shifted(prev, last)
    /\ last' = [op |-> "download", url |-> url, hint |-> hint, path |-> r.path,
                ret |-> r.ret, raised |-> r.raised, requests |-> r.requests,
                hit |-> r.hit, dl |-> logged(<<r>>),
                body |-> IF r.requests = 1 /\ net.kind = "OK" THEN <<net.size>> ELSE << >>,
                touched |-> r.cache # cache]
    /\ UNCHANGED <<fs, outdir, procs, job>>

\* a call of find_or_download_ocio_config(source, path, url, preset)
ResolveCall ==
  \E in \in ResolveInputs, net \in NetOutcomes :
    LET r == find_or_download_ocio_config(
               cache, fs, in.source, in.path, in.url, in.preset, net) IN
    /\ cache' = r.cache
    /\ prev' = shifted(prev, last)
    /\ last' = [op |-> "resolve", source |-> in.source, path |-> in.path,
                url |-> in.url, preset |-> in.preset,
                ret |-> r.ret, raised |-> r.raised, requests |-> r.requests,
                dl |-> logged(r.dl), touched |-> r.cache # cache]
    /\ UNCHANGED <<fs, outdir, procs, job>>

----------------------------------------------------------------------------
(* download_ocio_config statement by statement, for callers that run at the
   same time on one cache directory (two ComfyUI processes with the same
   models directory).  The code takes no lock.  File semantics are those of
   POSIX: open(path, 'wb') truncates the file the path names or creates it;
   os.remove unlinks the path and an open file of another caller lives on
   without a name; a write at offset 0 never shortens a file. *)

\* the URL and hint both callers pass, and the cache file they share
RaceUrl == UserUrl

RacePath == cache_path(RaceUrl, DefaultHint)

\* the cache path names a file: os.path.getsize and os.remove raise
\* FileNotFoundError when it does not
present(c) == RacePath \in DOMAIN c

\* the call has ended: return value in ret
returned(pr, ret) == [pr EXCEPT !.pc = "done", !.ret = ret, !.linked = FALSE]

\* some call downloaded the file, validated it and returned its path
DownloadReturned ==
  \E q \in Procs : procs[q].pc = "done" /\ procs[q].ret = RacePath /\ procs[q].wrote

\* os.remove by one caller: the open files of the others lose their name
unlinked_for_others(p) ==
  [q \in Procs |-> IF q = p THEN procs[q] ELSE [procs[q] EXCEPT !.linked = FALSE]]

\* if os.path.exists(cache_path)
RaceCheck(p) ==
  /\ procs[p].pc = "idle"
  /\ procs' = [procs EXCEPT ![p] =
       [@ EXCEPT !.pc = IF exists(cache, RacePath) THEN "hit_size" ELSE "request",
                 !.late = DownloadReturned /\ present(cache)]]
  /\ UNCHANGED <<cache, fs, outdir, prev, last, job>>

\* file_size = os.path.getsize(cache_path); return cache_path.  getsize raises
\* FileNotFoundError when the file was removed since the test; the last
\* handler turns that into None
RaceHitSize(p) ==
  /\ procs[p].pc = "hit_size"
  /\ procs' = [procs EXCEPT ![p] =
       IF present(cache)
       THEN returned([@ EXCEPT !.hit = TRUE], RacePath)
       ELSE returned(@, None)]
  /\ UNCHANGED <<cache, fs, outdir, prev, last, job>>

\* urllib.request.urlopen(req, timeout=30)
RaceRequest(p) ==
  /\ procs[p].pc = "request"
  /\ \E net \in NetOutcomes :
       procs' = [procs EXCEPT ![p] =
         IF net.kind \in {"HTTPError", "URLError"}
         THEN returned(@, None)
         ELSE [@ EXCEPT !.pc = "open", !.resp = <<net>>]]
  /\ UNCHANGED <<cache, fs, outdir, prev, last, job>>

\* open(cache_path, 'wb')
RaceOpen(p) ==
  /\ procs[p].pc = "open"
  /\ cache' = write_file(cache, RacePath, 0)
  /\ procs' = [procs EXCEPT ![p] = [@ EXCEPT !.pc = "write", !.linked = TRUE]]
  /\ UNCHANGED <<fs, outdir, prev, last, job>>

\* f.write(response.read()) and the close at the end of the with block; a
\* read that raises leaves the file as it is
RaceWrite(p) ==
  /\ procs[p].pc = "write"
  /\ LET net == procs[p].resp[1] IN
     IF net.kind = "ReadError"
     THEN /\ procs' = [procs EXCEPT ![p] = returned(@, None)]
          /\ UNCHANGED cache
     ELSE /\ procs' = [procs EXCEPT ![p] =
                         [@ EXCEPT !.pc = "validate", !.linked = FALSE]]
          /\ cache' = IF procs[p].linked
                      THEN write_file(cache, RacePath,
                                      IF cache[RacePath] > net.size
                                      THEN cache[RacePath] ELSE net.size)
                      ELSE cache
  /\ UNCHANGED <<fs, outdir, prev, last, job>>

\* file_size = os.path.getsize(cache_path); if file_size < 1000
RaceValidate(p) ==
  /\ procs[p].pc = "validate"
  /\ procs' = [procs EXCEPT ![p] =
       IF ~present(cache) THEN returned(@, None)
       ELSE IF too_small(cache[RacePath]) THEN [@ EXCEPT !.pc = "remove"]
       ELSE returned([@ EXCEPT !.wrote = TRUE], RacePath)]
  /\ UNCHANGED <<cache, fs, outdir, prev, last, job>>

\* os.remove(cache_path); raise Exception(...), caught by the last handler.
\* os.remove itself raises FileNotFoundError when the file is gone already.
RaceRemove(p) ==
  /\ procs[p].pc = "remove"
  /\ IF present(cache)
     THEN /\ cache' = remove_file(cache, RacePath)
          /\ procs' = [unlinked_for_others(p) EXCEPT ![p] = returned(@, None)]
     ELSE /\ procs' = [procs EXCEPT ![p] = returned(@, None)]
          /\ UNCHANGED cache
  /\ UNCHANGED <<fs, outdir, prev, last, job>>

----------------------------------------------------------------------------
(* ColorSpaceConverter *)

ColorSpaces == {"sRGB", "Rec.709", "Linear sRGB", "ACES2065-1", "ACEScg"}

\* self.SRGB_TO_ACES2065_MATRIX, in units of 1/10000
SRGB_TO_ACES2065_MATRIX ==
  << <<4396, 3832, 1773>>,
     <<898, 8134, 968>>,
     <<175, 1116, 8709>> >>

\* self.ACES2065_TO_ACESCG_MATRIX, in units of 1/10000
ACES2065_TO_ACESCG_MATRIX ==
  << <<14514, -2365, -2149>>,
     <<-766, 11762, -997>>,
     <<83, -60, 9977>> >>

matrix_named(name) ==
  IF name = "SRGB_TO_ACES2065_MATRIX" THEN SRGB_TO_ACES2065_MATRIX
  ELSE ACES2065_TO_ACESCG_MATRIX

\* np.power((v + 0.055) / 1.055, 2.4) in units of 1/10000, tabulated for the
\* samples of the model above the 0.04045 knee
gamma_2_4(v) ==
  CASE v = 405   -> 31
    [] v = 5000  -> 2140
    [] v = 10000 -> 10000
    [] v = 20000 -> 49538

\* one sample of srgb_to_linear: np.where(v <= 0.04045, v / 12.92, power(...))
srgb_sample(v) ==
  IF v * 10 <= 4045 THEN (v * 100) \div 1292 ELSE gamma_2_4(v)

\* srgb_to_linear(image): element-wise; an image is a sequence of RGB triples
srgb_to_linear(image) ==
  [i \in 1..Len(image) |-> [k \in 1..3 |-> srgb_sample(image[i][k])]]

\* matrix_transform(image, matrix): np.dot(flat_image, matrix.T), so that
\* output channel j is the sum over k of pixel[k] * matrix[j][k]
matrix_transform(image, matrix) ==
  [i \in 1..Len(image) |->
     [j \in 1..3 |->
        (image[i][1] * matrix[j][1] + image[i][2] * matrix[j][2]
           + image[i][3] * matrix[j][3]) \div 10000]]

\* A buffer together with the calls that produced it, in call order
traced(image) == [image |-> image, steps |-> << >>]

linearized(t) ==
  [image |-> srgb_to_linear(t.image), steps |-> Append(t.steps, "srgb_to_linear")]

transformed(t, name) ==
  [image |-> matrix_transform(t.image, matrix_named(name)),
   steps |-> Append(t.steps, name)]

\* what convert_colorspace returns: (array, description), and the calls made
converted(t, info) == [image |-> t.image, info |-> info, steps |-> t.steps]

\* the dispatch without its equality test
same_space_never(input_cs, output_cs) == FALSE

\* if input_cs == output_cs
same_space(input_cs, output_cs) == input_cs = output_cs

\* return image_array, "Без конвертации"
conv_identity(image_array) == converted(traced(image_array), "Bez konvertatsii")

\* sRGB -> ACES2065-1 with the matrix applied to the encoded samples
conv_srgb_aces2065_encoded(image_array) ==
  converted(transformed(traced(image_array), "SRGB_TO_ACES2065_MATRIX"),
            "Matrix: sRGB -> Linear -> ACES2065-1")

\* input_cs == "sRGB" and output_cs == "ACES2065-1"
conv_srgb_aces2065(image_array) ==
  converted(transformed(linearized(traced(image_array)), "SRGB_TO_ACES2065_MATRIX"),
            "Matrix: sRGB -> Linear -> ACES2065-1")

\* input_cs == "ACES2065-1" and output_cs == "ACEScg"
conv_aces2065_acescg(image_array) ==
  converted(transformed(traced(image_array), "ACES2065_TO_ACESCG_MATRIX"),
            "Matrix: ACES2065-1 -> ACEScg")

\* sRGB -> ACEScg with the two matrices applied in the wrong order
conv_srgb_acescg_swapped(image_array) ==
  LET linear_image == linearized(traced(image_array))
      acescg == transformed(linear_image, "ACES2065_TO_ACESCG_MATRIX")
      result == transformed(acescg, "SRGB_TO_ACES2065_MATRIX")
  IN converted(result, "Matrix: sRGB -> Linear -> ACES2065-1 -> ACEScg")

\* input_cs == "sRGB" and output_cs == "ACEScg"
conv_srgb_acescg(image_array) ==
  LET linear_image == linearized(traced(image_array))
      aces2065 == transformed(linear_image, "SRGB_TO_ACES2065_MATRIX")
      result == transformed(aces2065, "ACES2065_TO_ACESCG_MATRIX")
  IN converted(result, "Matrix: sRGB -> Linear -> ACES2065-1 -> ACEScg")

\* Linear sRGB -> ACES2065-1 carrying the description of the sRGB branch
conv_linear_aces2065_mislabelled(image_array) ==
  converted(transformed(traced(image_array), "SRGB_TO_ACES2065_MATRIX"),
            "Matrix: sRGB -> Linear -> ACES2065-1")

\* input_cs == "Linear sRGB" and output_cs == "ACES2065-1"
conv_linear_aces2065(image_array) ==
  converted(transformed(traced(image_array), "SRGB_TO_ACES2065_MATRIX"),
            "Matrix: Linear sRGB -> ACES2065-1")

\* the fallback with a description that names no colour space
conv_unsupported_unnamed(image_array, input_cs, output_cs) ==
  converted(traced(image_array), "Bez konvertatsii")

\* else: return image_array, f"Без конвертации ({input_cs} -> {output_cs} недоступна)"
conv_unsupported(image_array, input_cs, output_cs) ==
  converted(traced(image_array),
            "Bez konvertatsii (" \o input_cs \o " -> " \o output_cs \o " nedostupna)")

convert_colorspace(image_array, input_cs, output_cs) ==
  IF same_space(input_cs, output_cs) THEN conv_identity(image_array)
  ELSE IF input_cs = "sRGB" /\ output_cs = "ACES2065-1"
  THEN conv_srgb_aces2065(image_array)
  ELSE IF input_cs = "ACES2065-1" /\ output_cs = "ACEScg"
  THEN conv_aces2065_acescg(image_array)
  ELSE IF input_cs = "sRGB" /\ output_cs = "ACEScg"
  THEN conv_srgb_acescg(image_array)
  ELSE IF input_cs = "Linear sRGB" /\ output_cs = "ACES2065-1"
  THEN conv_linear_aces2065(image_array)
  ELSE conv_unsupported(image_array, input_cs, output_cs)

\* RGB triples of the model: black, the knee of the sRGB curve, white, HDR
Pixels ==
  { <<0, 0, 0>>, <<404, 405, 5000>>, <<10000, 10000, 10000>>, <<20000, 5000, 0>> }

RECURSIVE images_of(_)
images_of(n) ==
  IF n = 0 THEN { << >> }
  ELSE { Append(img, px) : img \in images_of(n - 1), px \in Pixels }

\* pixel buffers of 1..MaxPixels pixels
Images == UNION { images_of(n) : n \in 1..MaxPixels }

\* a call of convert_colorspace(image_array, input_cs, output_cs)
ConvertCall ==
  \E image \in Images, input_cs \in ColorSpaces, output_cs \in ColorSpaces :
    /\ last' = [op |-> "convert", image |-> image, input_cs |-> input_cs,
                output_cs |-> output_cs,
                res |-> convert_colorspace(image, input_cs, output_cs),
                dl |-> << >>]
    /\ prev' = shifted(prev, last)
    /\ UNCHANGED <<cache, fs, outdir, procs, job>>

----------------------------------------------------------------------------
(* EXR writer: save_exr_aces *)

\* folder_paths.get_output_directory()
output_dir == "/ComfyUI/output"

\* os.path.join(self.output_dir, filename)
output_path(filename) == output_dir \o "/" \o filename

\* np.min / np.max over every sample of the array
samples_of(image_array) ==
  { image_array[i][k] : i \in 1..Len(image_array), k \in 1..3 }

min_val(image_array) ==
  CHOOSE v \in samples_of(image_array) : \A w \in samples_of(image_array) : v <= w

max_val(image_array) ==
  CHOOSE v \in samples_of(image_array) : \A w \in samples_of(image_array) : v >= w

\* f"{n:03d}" for 0 <= n < 1000
pad3(n) ==
  IF n < 10 THEN "00" \o ToString(n)
  ELSE IF n < 100 THEN "0" \o ToString(n)
  ELSE ToString(n)

\* f"{v:.3f}" of a sample in units of 1/10000 (a tie rounds up)
fmt3(v) ==
  LET a == IF v < 0 THEN -v ELSE v
      r == (a + 5) \div 10
  IN (IF v < 0 THEN "-" ELSE "") \o ToString(r \div 1000) \o "." \o pad3(r % 1000)

\* What the imaging library does with one file: it writes it ("ok"),
\* ImageOutput.create returns nothing, out.open fails, or write_image fails
\* after the file was opened.
WriteOutcomes == {"ok", "create_failed", "open_failed", "write_failed"}

\* save_exr_aces(image_array, filepath, colorspace, compression, pixel_type):
\* the output directory it leaves and the (success, info) it returns; every
\* exception of the body is caught and turned into (False, "Ошибка EXR: ...")
save_exr_aces(out, image_array, filepath, colorspace, compression, pixel_type, w) ==
  CASE w = "ok" ->
         [outdir |-> write_file(out, filepath, "complete"),
          success |-> TRUE,
          info |-> "EXR " \o colorspace \o " (" \o pixel_type \o ", " \o compression
                     \o ", range: [" \o fmt3(min_val(image_array)) \o ", "
                     \o fmt3(max_val(image_array)) \o "])"]
    [] w = "create_failed" ->
         [outdir |-> out,
          success |-> FALSE,
          info |-> "Oshibka EXR: Nevozmozhno sozdat EXR output dlya " \o filepath]
    [] w = "open_failed" ->
         [outdir |-> out,
          success |-> FALSE,
          info |-> "Oshibka EXR: Nevozmozhno otkryt " \o filepath \o " dlya zapisi EXR"]
    [] w = "write_failed" ->
         [outdir |-> write_file(out, filepath, "partial"),
          success |-> FALSE,
          info |-> "Oshibka EXR: Oshibka zapisi EXR dannykh"]

----------------------------------------------------------------------------
(* The save operation: save_aces_exr *)

\* tensor_to_numpy: np.clip(array, 0.0, None)
tensor_to_numpy(tensor) ==
  [i \in 1..Len(tensor) |->
     [k \in 1..3 |-> IF tensor[i][k] < 0 THEN 0 ELSE tensor[i][k]]]

\* f"{i:05d}"
pad5(i) ==
  IF i < 10 THEN "0000" \o ToString(i)
  ELSE IF i < 100 THEN "000" \o ToString(i)
  ELSE IF i < 1000 THEN "00" \o ToString(i)
  ELSE IF i < 10000 THEN "0" \o ToString(i)
  ELSE ToString(i)

\* a batch file name whose index never advances
batch_filename_unindexed(filename_prefix, i) ==
  filename_prefix \o "_" \o pad5(0) \o ".exr"

\* f"{filename_prefix}_{i:05d}.exr"
batch_filename(filename_prefix, i) == filename_prefix \o "_" \o pad5(i) \o ".exr"

\* f"{filename_prefix}.exr"
single_filename(filename_prefix) == filename_prefix \o ".exr"

\* the report line of a frame of a batch
batch_info(i, total_frames, success, conv_info, format_info) ==
  IF success
  THEN "Frame " \o ToString(i + 1) \o "/" \o ToString(total_frames) \o ": "
         \o conv_info \o " -> " \o format_info
  ELSE "Frame " \o ToString(i + 1) \o "/" \o ToString(total_frames)
         \o ": OSHIBKA - " \o format_info

\* the report line of a single image
single_info(success, conv_info, format_info) ==
  IF success THEN conv_info \o " -> " \o format_info
  ELSE "OSHIBKA - " \o format_info

\* saved_files and conversion_infos before the first frame
no_frames(out) ==
  [outdir |-> out, saved_files |-> << >>, conversion_infos |-> << >>,
   trace |-> << >>]

\* the head of a frame: tensor_to_numpy, then convert_colorspace
frame_conversion(image_tensor, a) ==
  convert_colorspace(tensor_to_numpy(image_tensor), a.input_colorspace,
                     a.colorspace)

\* the rest of a frame: save_exr_aces of the converted array conv.image and
\* the appends to saved_files and conversion_infos.  a: the arguments of the
\* save; line: the report line for this outcome; w: the writer's outcome.
\* trace records what was done, in order.
frame_written(acc, i, conv, filename, line, a, w) ==
  LET filepath == output_path(filename)
      saved == save_exr_aces(acc.outdir, conv.image, filepath, a.colorspace,
                             a.compression, a.pixel_type, w)
  IN [outdir |-> saved.outdir,
      saved_files |-> IF saved.success THEN Append(acc.saved_files, filepath)
                      ELSE acc.saved_files,
      conversion_infos |->
        Append(acc.conversion_infos,
               IF line = "batch"
               THEN batch_info(i, a.total_frames, saved.success, conv.info, saved.info)
               ELSE single_info(saved.success, conv.info, saved.info)),
      trace |-> Append(acc.trace,
                       [frame |-> i, steps |-> conv.steps, conv_info |-> conv.info,
                        filepath |-> filepath, success |-> saved.success,
                        format_info |-> saved.info])]

\* one frame, from images[i] to the appended report line
process_frame(acc, i, image_tensor, filename, line, a, w) ==
  frame_written(acc, i, frame_conversion(image_tensor, a), filename, line, a, w)

\* for i in range(total_frames): frames 0 .. n-1, in order
RECURSIVE batch_loop(_, _, _, _)
batch_loop(out, n, a, writes) ==
  IF n = 0 THEN no_frames(out)
  ELSE process_frame(batch_loop(out, n - 1, a, writes), n - 1, a.images[n],
                     batch_filename(a.filename_prefix, n - 1), "batch", a,
                     writes[n])

\* exr_path = saved_files[-1]: the last file instead of the first
primary_path_last(saved_files) ==
  IF saved_files # << >> THEN saved_files[Len(saved_files)] ELSE ""

\* exr_path = saved_files[0] if saved_files else ""
primary_path(saved_files) ==
  IF saved_files # << >> THEN saved_files[1] ELSE ""

\* "\n".join(conversion_infos)
RECURSIVE join_lines(_)
join_lines(lines) ==
  IF lines = << >> THEN ""
  ELSE IF Len(lines) = 1 THEN lines[1]
  ELSE lines[1] \o "\n" \o join_lines(Tail(lines))

OIIO_MISSING == "OpenImageIO nedostupen! Ustanovite: pip install OpenImageIO ili conda install -c conda-forge openimageio"

\* save_aces_exr(images, filename_prefix, colorspace, compression, pixel_type,
\*               input_colorspace, ocio_config_source, ocio_config_path,
\*               ocio_config_url, ocio_preset)
\* a: these arguments, with a.ndim = len(images.shape), a.total_frames =
\* images.shape[0] of a 4-d tensor and a.images its frames.
save_aces_exr(c, files, out, oiio_available, a, net, writes) ==
  IF ~oiio_available
  THEN [cache |-> c, outdir |-> out, raised |-> None,
        ret |-> <<"", OIIO_MISSING>>, saved_files |-> << >>,
        conversion_infos |-> << >>, trace |-> << >>,
        resolved |-> << >>, dl |-> << >>]
  ELSE
    LET r == find_or_download_ocio_config(
               c, files, a.ocio_config_source, a.ocio_config_path,
               a.ocio_config_url, a.ocio_preset, net)
    IN
    IF r.raised # None
    THEN [cache |-> r.cache, outdir |-> out, raised |-> r.raised,
          ret |-> << >>, saved_files |-> << >>,
          conversion_infos |-> << >>, trace |-> << >>,
          resolved |-> << >>, dl |-> r.dl]
    ELSE
      LET done ==
            IF a.ndim = 4 /\ a.total_frames > 1
            THEN batch_loop(out, a.total_frames, a, writes)
            ELSE process_frame(no_frames(out), 0, a.images[1],
                               single_filename(a.filename_prefix), "single",
                               a, writes[1])
      IN [cache |-> r.cache, outdir |-> done.outdir, raised |-> None,
          ret |-> <<primary_path(done.saved_files),
                    join_lines(done.conversion_infos)>>,
          saved_files |-> done.saved_files,
          conversion_infos |-> done.conversion_infos,
          trace |-> done.trace,
          resolved |-> <<r.ret>>, dl |-> r.dl]

----------------------------------------------------------------------------
(* Inputs of the save operation *)

\* the one-pixel frames of the IMAGE tensor, by position; the second has a
\* negative sample
FramePixels ==
  << <<20000, 5000, 0>>, <<-100, 405, 5000>>, <<10000, 10000, 10000>>,
     <<0, 0, 0>> >>

frame_tensor(i) == << FramePixels[((i - 1) % Len(FramePixels)) + 1] >>

\* (len(images.shape), images.shape[0], frames): one 3-d image, or a 4-d
\* batch of 1..MaxFrames frames
TensorInputs ==
       { [ndim |-> 3, total_frames |-> 1, images |-> <<frame_tensor(1)>>] }
  \cup { [ndim |-> 4, total_frames |-> n,
          images |-> [i \in 1..n |-> frame_tensor(i)]] : n \in 1..MaxFrames }

\* (colorspace, compression, pixel_type)
OutputInputs == { <<"ACES2065-1", "zip", "half">>, <<"ACEScg", "dwaa", "float">> }

\* (ocio_config_source, ocio_config_path, ocio_config_url, ocio_preset) and
\* what the network answers if the resolver asks: a local file (present or
\* missing, by fs), a download that succeeds, fails or is undersized, and an
\* unknown preset
SaveConfigInputs ==
  LET auto == [source |-> "Auto", path |-> "", url |-> "",
               preset |-> "ACES 1.3 CG Config"]
      byurl == [source |-> "URL", path |-> "", url |-> UserUrl,
                preset |-> "ACES 1.3 CG Config"]
  IN { <<auto, [kind |-> "OK", size |-> 1000]>>,
       <<auto, [kind |-> "OK", size |-> 999]>>,
       <<auto, [kind |-> "URLError", size |-> 0]>>,
       <<byurl, [kind |-> "HTTPError", size |-> 0]>>,
       <<byurl, [kind |-> "ReadError", size |-> 0]>>,
       <<[source |-> "Local Path", path |-> LocalPath, url |-> "",
          preset |-> "ACES 1.3 CG Config"], [kind |-> "OK", size |-> 1000]>>,
       <<[source |-> "Preset", path |-> "", url |-> "",
          preset |-> "ACES 0.7 Config"], [kind |-> "OK", size |-> 1000]>> }

RECURSIVE outcomes_of(_)
outcomes_of(n) ==
  IF n = 0 THEN { << >> }
  ELSE { Append(ws, w) : ws \in outcomes_of(n - 1), w \in WriteOutcomes }

save_args(t, input_cs, o, cfg) ==
  [images |-> t.images, ndim |-> t.ndim, total_frames |-> t.total_frames,
   filename_prefix |-> "aces_render", colorspace |-> o[1],
   compression |-> o[2], pixel_type |-> o[3], input_colorspace |-> input_cs,
   ocio_config_source |-> cfg.source, ocio_config_path |-> cfg.path,
   ocio_config_url |-> cfg.url, ocio_preset |-> cfg.preset]

\* what last keeps of a save
save_record(a, oiio_available, net, writes, r) ==
  [op |-> "save", args |-> a, oiio |-> oiio_available, writes |-> writes,
   ret |-> r.ret, raised |-> r.raised, saved_files |-> r.saved_files,
   conversion_infos |-> r.conversion_infos, trace |-> r.trace,
   resolved |-> r.resolved, dl |-> logged(r.dl)]

\* One save request with OpenImageIO imported.  The claims about the save
\* speak of one request, so a behaviour holds one.
SaveCall ==
  /\ last.op = "none"
  /\ \E t \in TensorInputs, input_cs \in ColorSpaces, o \in OutputInputs,
        cn \in SaveConfigInputs :
       \E writes \in outcomes_of(t.total_frames) :
         LET a == save_args(t, input_cs, o, cn[1])
             net == cn[2]
             r == save_aces_exr(cache, fs, outdir, TRUE, a, net, writes)
         IN /\ cache' = r.cache
            /\ outdir' = r.outdir
            /\ prev' = shifted(prev, last)
            /\ last' = save_record(a, TRUE, net, writes, r)
            /\ UNCHANGED <<fs, procs, job>>

\* One save request in a process where the import of OpenImageIO failed
SaveCallNoOIIO ==
  /\ last.op = "none"
  /\ \E t \in TensorInputs, input_cs \in ColorSpaces, o \in OutputInputs,
        cn \in SaveConfigInputs :
       LET a == save_args(t, input_cs, o, cn[1])
           net == cn[2]
           writes == [i \in 1..t.total_frames |-> "ok"]
           r == save_aces_exr(cache, fs, outdir, FALSE, a, net, writes)
       IN /\ cache' = r.cache
          /\ outdir' = r.outdir
          /\ prev' = shifted(prev, last)
          /\ last' = save_record(a, FALSE, net, writes, r)
          /\ UNCHANGED <<fs, procs, job>>

----------------------------------------------------------------------------
(* save_aces_exr statement by statement: one request of a constructed node
   (__init__ raises unless OpenImageIO was imported), from the call to the
   return.  job.i is the loop variable, job.conv the converted frame between
   its conversion and its write, job.acc holds saved_files and
   conversion_infos, job.resolutions counts the calls of
   find_or_download_ocio_config (history, not a local of the code). *)

\* (input_colorspace, (colorspace, compression, pixel_type), (config, network))
SaveStepInputs ==
  { x \in ColorSpaces \X OutputInputs \X SaveConfigInputs :
      /\ x[1] = (IF x[3][1].source = "Auto" THEN "sRGB"
                 ELSE IF x[3][1].source = "URL" THEN "Rec.709"
                 ELSE "Linear sRGB")
      /\ (x[2][1] = "ACEScg") = (x[3][2].size = 1000) }

\* len(images.shape) == 4 and images.shape[0] > 1
is_batch(a) == a.ndim = 4 /\ a.total_frames > 1

\* range(total_frames) of the batch branch; the single branch runs once
frames_of(a) == IF is_batch(a) THEN a.total_frames ELSE 1

\* a loop that ends at the first frame whose write failed
loop_continues_until_failure(i, n, acc) ==
  IF acc.trace = << >> THEN i < n
  ELSE i < n /\ acc.trace[Len(acc.trace)].success

\* for i in range(total_frames): nothing but the index ends the loop
loop_continues(i, n, acc) == i < n

\* the call, up to the OpenImageIO test
SaveBegin ==
  /\ job.pc = "idle"
  /\ last.op = "none"
  /\ \E t \in TensorInputs, x \in SaveStepInputs :
       \E writes \in outcomes_of(t.total_frames) :
         job' = [pc |-> "resolve", a |-> save_args(t, x[1], x[2], x[3][1]),
                 net |-> x[3][2], writes |-> writes, i |-> 0, conv |-> << >>,
                 acc |-> no_frames(outdir), resolutions |-> 0,
                 resolved |-> << >>, dl |-> << >>]
  /\ UNCHANGED <<cache, fs, outdir, prev, last, procs>>

\* ocio_config_path_resolved = self.find_or_download_ocio_config(...)
SaveResolve ==
  /\ job.pc = "resolve"
  /\ LET r == find_or_download_ocio_config(
                cache, fs, job.a.ocio_config_source, job.a.ocio_config_path,
                job.a.ocio_config_url, job.a.ocio_preset, job.net)
     IN /\ cache' = r.cache
        /\ job' = [job EXCEPT !.pc = IF r.raised # None THEN "raised" ELSE "convert",
                              !.resolutions = @ + 1,
                              !.resolved = <<r.ret>>,
                              !.dl = r.dl]
  /\ UNCHANGED <<fs, outdir, prev, last, procs>>

\* the head of the loop body (or of the single branch): tensor_to_numpy and
\* convert_colorspace of frame job.i
SaveConvert ==
  /\ job.pc = "convert"
  /\ loop_continues(job.i, frames_of(job.a), job.acc)
  /\ job' = [job EXCEPT !.pc = "write",
                        !.conv = <<frame_conversion(job.a.images[job.i + 1], job.a)>>]
  /\ UNCHANGED <<cache, fs, outdir, prev, last, procs>>

\* the rest of the loop body: save_exr_aces of the converted frame, the
\* appends to saved_files and conversion_infos, and the next index
SaveWrite ==
  /\ job.pc = "write"
  /\ LET a == job.a
         done == frame_written(
                   job.acc, job.i, job.conv[1],
                   IF is_batch(a) THEN batch_filename(a.filename_prefix, job.i)
                   ELSE single_filename(a.filename_prefix),
                   IF is_batch(a) THEN "batch" ELSE "single",
                   a, job.writes[job.i + 1])
     IN /\ outdir' = done.outdir
        /\ job' = [job EXCEPT !.pc = "convert", !.i = @ + 1, !.acc = done,
                              !.conv = << >>]
  /\ UNCHANGED <<cache, fs, prev, last, procs>>

\* exr_path, combined_info and the return
SaveReturn ==
  /\ job.pc = "convert"
  /\ ~loop_continues(job.i, frames_of(job.a), job.acc)
  /\ job' = [job EXCEPT !.pc = "returned"]
  /\ prev' = shifted(prev, last)
  /\ last' = save_record(job.a, TRUE, job.net, job.writes,
                [ret |-> <<primary_path(job.acc.saved_files),
                          join_lines(job.acc.conversion_infos)>>,
                 raised |-> None,
                 saved_files |-> job.acc.saved_files,
                 conversion_infos |-> job.acc.conversion_infos,
                 trace |-> job.acc.trace,
                 resolved |-> job.resolved, dl |-> job.dl])
  /\ UNCHANGED <<cache, fs, outdir, procs>>

----------------------------------------------------------------------------
(* Specifications *)

NextDownload == DownloadCall

NextResolve == ResolveCall

NextConvert == ConvertCall

NextSave == SaveCall \/ SaveCallNoOIIO

NextRace ==
  \E p \in Procs :
    \/ RaceCheck(p) \/ RaceHitSize(p) \/ RaceRequest(p) \/ RaceOpen(p)
    \/ RaceWrite(p) \/ RaceValidate(p) \/ RaceRemove(p)

NextSaveSteps ==
  SaveBegin \/ SaveResolve \/ SaveConvert \/ SaveWrite \/ SaveReturn

Next ==
  \/ DownloadCall \/ ResolveCall \/ ConvertCall \/ SaveCall \/ SaveCallNoOIIO
  \/ NextRace \/ NextSaveSteps

\* everything the node can do
Spec == Init /\ [][Next]_vars

\* download_ocio_config called directly, any number of times
SpecDownload == Init /\ [][NextDownload]_vars

\* find_or_download_ocio_config called any number of times
SpecResolve == Init /\ [][NextResolve]_vars

\* convert_colorspace on every input of the model
SpecConvert == Init /\ [][NextConvert]_vars

\* one save_aces_exr request on every input of the model
SpecSave == Init /\ [][NextSave]_vars

\* one save_aces_exr request, statement by statement.  The request runs
\* synchronously on one thread and every statement ends (urlopen and the read
\* have a timeout, the loop is bounded by the tensor), so a request that can
\* take a step does: weak fairness of the step.
SpecSaveSteps == Init /\ [][NextSaveSteps]_vars /\ WF_vars(NextSaveSteps)

\* one download_ocio_config call by each caller, interleaved statement by
\* statement, on a cache directory that starts empty
SpecRace == Init /\ [][NextRace]_vars

----------------------------------------------------------------------------
(* Claims about download_ocio_config (fetchOrCache) *)

\* two successive download_ocio_config invocations: prev[1], then last.dl[1]
TwoCalls == prev # << >> /\ last.dl # << >>

C2_UndersizedDeleted ==
  (/\ last.op = "download"
   /\ last.body # << >>
   /\ last.body[1] < 1000) =>
     /\ ~ (last.path \in DOMAIN cache)
     /\ last.ret = None
     /\ last.raised = None

\* C2 witness: a call that received a 999-byte body
C2_Witness ==
  /\ last.op = "download"
  /\ last.body = <<999>>
  /\ last.requests = 1

----------------------------------------------------------------------------
(* Claims about find_or_download_ocio_config (resolve) *)

\* C5, as stated: the cache file is a function of the URL alone: two
\* fetchOrCache calls with distinct URLs never use the same cache file, and two
\* calls with the same URL use the same cache file, whichever resolve strategy
\* and filename hint they came with.
C5_CacheFileFunctionOfUrl ==
  TwoCalls =>
     /\ (prev[1].url # last.dl[1].url => prev[1].path # last.dl[1].path)
     /\ (prev[1].url = last.dl[1].url => prev[1].path = last.dl[1].path)

\* the indices of the conventional local paths that exist on disk
ExistingAuto == { i \in 1..Len(auto_paths) : auto_paths[i] \in fs }

\* C10: resolve in Auto mode returns the first conventional local path, in
\* list order, that exists, then issuing no network request and leaving the
\* cache untouched; only when none exists does it call fetchOrCache for the
\* "ACES 1.3 CG Config" preset URL, and its result is that call's result.
C10_AutoLocalFirst ==
  (last.op = "resolve" /\ last.source = "Auto") =>
     IF ExistingAuto # {}
     THEN /\ \E i \in ExistingAuto :
               /\ \A j \in ExistingAuto : i <= j
               /\ last.ret = auto_paths[i]
          /\ last.requests = 0
          /\ last.dl = << >>
          /\ ~last.touched
     ELSE /\ last.dl # << >>
          /\ last.dl[1].url = preset_ocio_urls["ACES 1.3 CG Config"]
          /\ last.ret = last.dl[1].ret
          /\ last.requests = last.dl[1].requests

\* C10 witness: Auto mode with two conventional paths on disk, the first one
\* returned
C10_Witness ==
  /\ last.op = "resolve"
  /\ last.source = "Auto"
  /\ Cardinality(ExistingAuto) >= 2
  /\ last.ret = auto_paths[2]

\* Auto mode with no conventional path on disk: the preset is downloaded
C10_FallbackReached ==
  /\ last.op = "resolve"
  /\ last.source = "Auto"
  /\ ExistingAuto = {}
  /\ last.dl # << >>
  /\ last.ret # None

----------------------------------------------------------------------------
(* Claims about convert_colorspace (convert) *)

\* the (source, dest) pairs with a conversion path
SupportedPairs ==
  { <<"sRGB", "ACES2065-1">>, <<"Linear sRGB", "ACES2065-1">>,
    <<"ACES2065-1", "ACEScg">>, <<"sRGB", "ACEScg">> }

IsMatrixStep(step) ==
  step \in {"SRGB_TO_ACES2065_MATRIX", "ACES2065_TO_ACESCG_MATRIX"}

\* C6: for every colour space X, convert(buffer, X, X) returns the buffer
\* unchanged, applies neither linearize nor a matrix, and its description says
\* that no conversion occurred.
C6_IdentityUnchanged ==
  (last.op = "convert" /\ last.input_cs = last.output_cs) =>
     /\ last.res.image = last.image
     /\ last.res.steps = << >>
     /\ last.res.info = "Bez konvertatsii"

\* C6 witness: an identity conversion of a buffer that is not black
C6_Witness ==
  /\ last.op = "convert"
  /\ last.input_cs = "sRGB"
  /\ last.output_cs = "sRGB"
  /\ last.image = << <<404, 405, 5000>> >>

\* C7: for every pair of distinct spaces outside the four supported pairs,
\* convert returns the buffer values unmodified, applies no step, and returns
\* a description that names both spaces of the pair as unavailable.
C7_UnsupportedPassThrough ==
  (/\ last.op = "convert"
   /\ last.input_cs # last.output_cs
   /\ <<last.input_cs, last.output_cs>> \notin SupportedPairs) =>
     /\ last.res.image = last.image
     /\ last.res.steps = << >>
     /\ last.res.info = "Bez konvertatsii (" \o last.input_cs \o " -> "
                          \o last.output_cs \o " nedostupna)"

\* C7 witness: Rec.709 -> ACEScg on a buffer that is not black
C7_Witness ==
  /\ last.op = "convert"
  /\ last.input_cs = "Rec.709"
  /\ last.output_cs = "ACEScg"
  /\ last.image = << <<20000, 5000, 0>> >>
  /\ last.res.info = "Bez konvertatsii (Rec.709 -> ACEScg nedostupna)"

\* C8: convert(buffer, sRGB, ACEScg) equals convert(., ACES2065-1, ACEScg)
\* applied to the buffer convert(buffer, sRGB, ACES2065-1) returns; the steps
\* are linearize, the sRGB->ACES2065-1 matrix, the ACES2065-1->ACEScg matrix,
\* in that order.
C8_TwoStageComposition ==
  (last.op = "convert" /\ last.input_cs = "sRGB" /\ last.output_cs = "ACEScg") =>
     LET stage1 == convert_colorspace(last.image, "sRGB", "ACES2065-1")
         stage2 == convert_colorspace(stage1.image, "ACES2065-1", "ACEScg")
     IN /\ last.res.image = stage2.image
        /\ last.res.steps = stage1.steps \o stage2.steps
        /\ last.res.steps = << "srgb_to_linear", "SRGB_TO_ACES2065_MATRIX",
                               "ACES2065_TO_ACESCG_MATRIX" >>

\* C8 witness: sRGB -> ACEScg on a saturated HDR pixel, which the conversion
\* changes
C8_Witness ==
  /\ last.op = "convert"
  /\ last.input_cs = "sRGB"
  /\ last.output_cs = "ACEScg"
  /\ last.image = << <<20000, 5000, 0>> >>
  /\ last.res.image # last.image

\* C9: whenever convert applies a matrix, the data is in linear light: a
\* non-linear source (sRGB, Rec.709) has been linearized first, linearize is
\* the first step exactly when the source is sRGB, and it is applied nowhere
\* else; so no matrix reaches Rec.709 data, and Linear sRGB and ACES2065-1 are
\* not linearized.
C9_MatrixOnLinearLight ==
  last.op = "convert" =>
     LET steps == last.res.steps
         linearizeAt == { i \in 1..Len(steps) : steps[i] = "srgb_to_linear" }
         matrixAt == { i \in 1..Len(steps) : IsMatrixStep(steps[i]) }
     IN /\ linearizeAt \subseteq {1}
        /\ (matrixAt # {} =>
              /\ (last.input_cs \in {"sRGB", "Rec.709"} => linearizeAt = {1})
              /\ (linearizeAt = {1} <=> last.input_cs = "sRGB"))
        /\ (linearizeAt # {} => matrixAt # {})

\* C9 witness: sRGB -> ACES2065-1, linearize first and then the matrix, on a
\* pixel with samples on both sides of the knee
C9_Witness ==
  /\ last.op = "convert"
  /\ last.input_cs = "sRGB"
  /\ last.output_cs = "ACES2065-1"
  /\ last.image = << <<404, 405, 5000>> >>
  /\ last.res.steps = << "srgb_to_linear", "SRGB_TO_ACES2065_MATRIX" >>

\* a matrix applied without linearize: the source is already linear
C9_LinearSourceReached ==
  /\ last.op = "convert"
  /\ last.input_cs = "Linear sRGB"
  /\ last.res.steps = << "SRGB_TO_ACES2065_MATRIX" >>

----------------------------------------------------------------------------
(* Claims about save_aces_exr (the save operation) *)

\* the 1-based positions of the frames the imaging library wrote
WrittenFrames == { i \in 1..Len(last.writes) : last.writes[i] = "ok" }

\* C3: a batch save of N > 1 frames, whichever frames fail to write, reports
\* exactly N entries, one per frame in frame order; a failed frame's entry is
\* marked as an error; the returned path is that of the lowest-indexed frame
\* written, or "" if every frame failed.
C3_BatchReport ==
  (/\ last.op = "save"
   /\ last.oiio
   /\ last.args.ndim = 4
   /\ last.args.total_frames > 1) =>
     LET N == last.args.total_frames IN
     /\ Len(last.conversion_infos) = N
     /\ Len(last.trace) = N
     /\ \A i \in 1..N :
          /\ last.trace[i].frame = i - 1
          /\ last.trace[i].success = (i \in WrittenFrames)
          /\ last.conversion_infos[i] =
               IF i \in WrittenFrames
               THEN "Frame " \o ToString(i) \o "/" \o ToString(N) \o ": "
                      \o last.trace[i].conv_info \o " -> "
                      \o last.trace[i].format_info
               ELSE "Frame " \o ToString(i) \o "/" \o ToString(N)
                      \o ": OSHIBKA - " \o last.trace[i].format_info
     /\ last.ret[2] = join_lines(last.conversion_infos)
     /\ last.ret[1] =
          IF WrittenFrames = {} THEN ""
          ELSE LET k == CHOOSE i \in WrittenFrames : \A j \in WrittenFrames : i <= j
               IN last.trace[k].filepath

\* C3 witness: a batch of three frames whose first frame fails to write and
\* whose other frames are written; the second frame's file is returned
C3_Witness ==
  /\ last.op = "save"
  /\ last.oiio
  /\ last.args.ndim = 4
  /\ last.writes = <<"write_failed", "ok", "ok">>
  /\ last.ret[1] = "/ComfyUI/output/aces_render_00001.exr"

\* a batch in which every frame fails
C3_AllFailedReached ==
  /\ last.op = "save"
  /\ last.oiio
  /\ last.args.ndim = 4
  /\ last.writes = <<"create_failed", "open_failed">>
  /\ last.ret[1] = ""

\* C4: the save never raises: whatever the outcome of configuration
\* resolution, the colour-space pair, the per-frame write outcomes and the
\* presence of the imaging library, it returns a pair (path, report), and the
\* path is "" when no file was written.
C4_SaveNeverRaises ==
  last.op = "save" =>
     /\ last.raised = None
     /\ Len(last.ret) = 2
     /\ ((~last.oiio \/ WrittenFrames = {}) => last.ret[1] = "")
     /\ (last.saved_files = << >> => last.ret[1] = "")

\* C4 witness: the download inside the save fails, the pair is unsupported and
\* both frames fail to write
C4_Witness ==
  /\ last.op = "save"
  /\ last.oiio
  /\ last.dl # << >>
  /\ last.dl[1].requests = 1
  /\ last.resolved = <<None>>
  /\ last.args.input_colorspace = "Rec.709"
  /\ last.args.total_frames = 2
  /\ WrittenFrames = {}
  /\ last.ret[1] = ""

\* a save in a process without the imaging library
C4_NoLibraryReached ==
  /\ last.op = "save"
  /\ ~last.oiio
  /\ last.ret = <<"", OIIO_MISSING>>

\* a save whose undersized download was deleted
C4_UndersizedReached ==
  /\ last.op = "save"
  /\ last.dl # << >>
  /\ last.dl[1].requests = 1
  /\ last.resolved = <<None>>
  /\ cache = << >>
  /\ last.args.ocio_config_source = "Auto"
  /\ last.saved_files # << >>

----------------------------------------------------------------------------
(* C11: a "Local Path" resolve returns the given path when it exists on disk
   and None otherwise; a "Preset" resolve whose name is not a key of
   preset_ocio_urls returns None; in each of these cases no network request
   is made and the cache directory is left exactly as it was. *)
OfflineResolve ==
  /\ last.op = "resolve"
  /\ \/ last.source = "Local Path"
     \/ last.source = "Preset" /\ last.preset \notin DOMAIN preset_ocio_urls

C11_OfflineStrategies ==
  OfflineResolve =>
    /\ last.source = "Local Path" =>
          last.ret = (IF last.path \in fs THEN last.path ELSE None)
    /\ last.source = "Preset" => last.ret = None
    /\ last.raised = None
    /\ last.requests = 0
    /\ last.dl = << >>
    /\ ~last.touched

\* a local path that exists is returned while the cache already holds a file
C11_Witness ==
  /\ OfflineResolve
  /\ last.source = "Local Path"
  /\ last.ret = LocalPath
  /\ DOMAIN cache # {}

\* the other two cases of C11: a missing local path, an unknown preset
C11_MissingReached ==
  /\ OfflineResolve /\ last.source = "Local Path" /\ last.path = LocalPath
  /\ last.ret = None

C11_UnknownPresetReached ==
  /\ OfflineResolve /\ last.source = "Preset" /\ last.ret = None
  /\ DOMAIN cache # {}

----------------------------------------------------------------------------
(* C12, as stated: a resolve call issues at most one network request; when
   the fetch of a resolve call failed (connection error, HTTP error, a failure
   while reading the body, an undersized download), the next resolve call for
   the same URL makes the request again and reuses nothing the failed attempt
   left: a call is a cache hit only on a file that a successful fetch wrote. *)
FetchFailed(call) == call.requests = 1 /\ call.ret = None

C12_FailedFetchRetried ==
  /\ last.op = "resolve" => last.requests <= 1 /\ Len(last.dl) <= 1
  /\ (/\ last.op = "resolve"
      /\ TwoCalls
      /\ prev[1].url = last.dl[1].url
      /\ FetchFailed(prev[1])) =>
        \/ last.dl[1].requests = 1 /\ ~last.dl[1].hit
        \/ /\ last.dl[1].hit
           /\ exists(cache, last.dl[1].path)
           /\ ~too_small(cache[last.dl[1].path])

----------------------------------------------------------------------------
(* C15, as stated: after any sequence of fetchOrCache calls that starts from
   an empty cache directory, calls whose body read fails after the cache file
   was opened included, every file in the cache directory between calls has at
   least 1000 bytes, and so does the file named by every returned path. *)
C15_CacheFilesValidated ==
  /\ \A f \in DOMAIN cache : ~too_small(cache[f])
  /\ (last.op = "download" /\ last.ret # None) =>
        exists(cache, last.ret) /\ ~too_small(cache[last.ret])

----------------------------------------------------------------------------
(* C16: for each of the four supported pairs convert applies exactly the
   listed steps (sRGB -> ACES2065-1: linearize, M1; Linear sRGB -> ACES2065-1:
   M1; ACES2065-1 -> ACEScg: M2; sRGB -> ACEScg: linearize, M1, M2), and the
   description it returns spells out that path step by step; no call that
   applies a different step sequence returns the same description. *)
ListedSteps(input_cs, output_cs) ==
  CASE input_cs = "sRGB" /\ output_cs = "ACES2065-1" ->
         <<"srgb_to_linear", "SRGB_TO_ACES2065_MATRIX">>
    [] input_cs = "Linear sRGB" /\ output_cs = "ACES2065-1" ->
         <<"SRGB_TO_ACES2065_MATRIX">>
    [] input_cs = "ACES2065-1" /\ output_cs = "ACEScg" ->
         <<"ACES2065_TO_ACESCG_MATRIX">>
    [] input_cs = "sRGB" /\ output_cs = "ACEScg" ->
         <<"srgb_to_linear", "SRGB_TO_ACES2065_MATRIX", "ACES2065_TO_ACESCG_MATRIX">>

\* the space a step leaves the buffer in, as the descriptions write it
StepTarget(step) ==
  CASE step = "srgb_to_linear" -> "Linear"
    [] step = "SRGB_TO_ACES2065_MATRIX" -> "ACES2065-1"
    [] step = "ACES2065_TO_ACESCG_MATRIX" -> "ACEScg"

RECURSIVE PathText(_, _)
PathText(text, steps) ==
  IF steps = << >> THEN text
  ELSE PathText(text \o " -> " \o StepTarget(Head(steps)), Tail(steps))

C16_DescriptionNamesPath ==
  last.op = "convert" =>
    /\ <<last.input_cs, last.output_cs>> \in SupportedPairs =>
          /\ last.res.steps = ListedSteps(last.input_cs, last.output_cs)
          /\ last.res.info = PathText("Matrix: " \o last.input_cs, last.res.steps)
    /\ \A input_cs \in ColorSpaces, output_cs \in ColorSpaces :
          LET other == convert_colorspace(last.image, input_cs, output_cs) IN
          other.steps # last.res.steps => other.info # last.res.info

\* the matrix-only pair, whose steps are a part of the sRGB pair's steps
C16_Witness ==
  /\ last.op = "convert"
  /\ last.input_cs = "Linear sRGB" /\ last.output_cs = "ACES2065-1"
  /\ last.res.steps = <<"SRGB_TO_ACES2065_MATRIX">>
  /\ last.res.info = "Matrix: Linear sRGB -> ACES2065-1"
  /\ last.res.image # last.image

----------------------------------------------------------------------------
(* C18: the outcome of config resolution does not influence what a save
   produces: a save with the same images, prefix, colour spaces, compression,
   pixel type and write outcomes, but any other config source and network
   answer, run on the cache the first save left, applies the same conversion steps, writes the
   same files, and returns the same primary path and the same report. *)
with_config(a, cfg) ==
  [a EXCEPT !.ocio_config_source = cfg.source, !.ocio_config_path = cfg.path,
            !.ocio_config_url = cfg.url, !.ocio_preset = cfg.preset]

C18_ResolutionIsInert ==
  (last.op = "save" /\ last.oiio) =>
    \A cn \in SaveConfigInputs :
      LET other == save_aces_exr(cache, fs, << >>, TRUE,
                                 with_config(last.args, cn[1]), cn[2],
                                 last.writes)
      IN /\ other.raised = last.raised
         /\ other.trace = last.trace
         /\ other.saved_files = last.saved_files
         /\ other.outdir = outdir
         /\ other.ret = last.ret

\* a save whose resolver asked the network and came back with nothing, while
\* other inputs of the model resolve to a file
C18_Witness ==
  /\ last.op = "save" /\ last.oiio
  /\ last.resolved = <<None>>
  /\ last.dl # << >>
  /\ Len(last.saved_files) >= 2
  /\ \E cn \in SaveConfigInputs :
       save_aces_exr(<< >>, fs, << >>, TRUE, with_config(last.args, cn[1]),
                     cn[2], last.writes).resolved \notin {<< >>, <<None>>}

----------------------------------------------------------------------------
(* C19: a save of a single image, a 4-d tensor of exactly one frame included,
   writes only <prefix>.exr; a save of a batch of N > 1 frames writes frame i
   to <prefix>_<i as five zero-padded digits>.exr; the frames of one save
   target pairwise different paths, so no frame overwrites another's file. *)
FiveDigits(i) == SubSeq("00000", 1, 5 - Len(ToString(i))) \o ToString(i)

C19_OutputFileNaming ==
  (last.op = "save" /\ last.oiio) =>
    LET a == last.args
        n == Len(last.trace)
        attempted == { last.trace[k].filepath : k \in 1..n }
    IN /\ DOMAIN outdir \subseteq attempted
       /\ a.total_frames = 1 =>
             /\ n = 1
             /\ last.trace[1].filepath =
                  output_dir \o "/" \o a.filename_prefix \o ".exr"
       /\ a.total_frames > 1 =>
             /\ n = a.total_frames
             /\ \A k \in 1..n :
                  last.trace[k].filepath =
                    output_dir \o "/" \o a.filename_prefix \o "_"
                      \o FiveDigits(last.trace[k].frame) \o ".exr"
       /\ \A j \in 1..n, k \in 1..n :
             j # k => last.trace[j].filepath # last.trace[k].filepath
       /\ \A k \in 1..n :
             last.trace[k].success =>
               /\ exists(outdir, last.trace[k].filepath)
               /\ outdir[last.trace[k].filepath] = "complete"

\* a batch whose frames were all written
C19_Witness ==
  /\ last.op = "save" /\ last.oiio
  /\ last.args.total_frames = MaxFrames
  /\ Len(last.saved_files) = MaxFrames
  /\ Cardinality(DOMAIN outdir) = MaxFrames

\* a 4-d tensor of one frame, saved under the single-image name
C19_OneFrameBatchReached ==
  /\ last.op = "save" /\ last.oiio
  /\ last.args.ndim = 4 /\ last.args.total_frames = 1
  /\ DOMAIN outdir = {output_dir \o "/aces_render.exr"}

----------------------------------------------------------------------------
(* C13, as stated: two download_ocio_config calls for the same URL run
   concurrently on a cache whose entry is missing, without a lock; under every
   interleaving of their exists test, open/write, size validation and delete,
   once both calls have finished every call that returned a path returned the
   path of a file that exists and holds a complete download. *)
BothFinished == \A p \in Procs : procs[p].pc = "done"

C13_RaceHarmless ==
  BothFinished =>
    \A p \in Procs :
      procs[p].ret # None =>
        /\ exists(cache, procs[p].ret)
        /\ ~too_small(cache[procs[p].ret])

----------------------------------------------------------------------------
(* C14, as stated: cache entries are immutable once written: after a
   download_ocio_config call has written a cache file, validated it and
   returned its path, no step of a later or of a concurrently running call
   truncates, rewrites or deletes that file. *)
C14_EntriesImmutable ==
  [][DownloadReturned => cache' = cache]_vars

(* The part of C14 that holds: a call that starts while a downloaded,
   validated and returned file is in place is a cache hit, and none of its
   steps truncates, rewrites or deletes the file. *)
LaterCallsLeaveEntry ==
  [][\A p \in Procs :
       (procs'[p].late /\ procs'[p] # procs[p]) =>
         /\ cache' = cache
         /\ procs'[p].pc \in {"hit_size", "done"}
         /\ procs'[p].pc = "done" =>
               procs'[p].hit /\ procs'[p].ret = RacePath]_vars

\* one call downloaded and returned the file, the other started afterwards and
\* has returned too
LaterCallReached ==
  /\ BothFinished
  /\ \E p \in Procs, q \in Procs :
       /\ procs[p].wrote /\ procs[p].ret = RacePath
       /\ procs[q].late /\ procs[q].hit /\ procs[q].ret = RacePath
  /\ exists(cache, RacePath) /\ ~too_small(cache[RacePath])

----------------------------------------------------------------------------
(* C17: every save request returns in the end; before it returns it has run
   config resolution exactly once, and only then processed the N frames of
   the tensor, each exactly once, in increasing index order, one frame's
   conversion and write done before the next frame starts; a frame whose
   write fails does not keep the following frame from being processed. *)
C17_ResolveThenFramesInOrder ==
  job.pc # "idle" =>
    LET trace == job.acc.trace IN
    /\ job.pc = "resolve" =>
          job.resolutions = 0 /\ job.i = 0 /\ job.conv = << >>
    /\ job.pc \in {"convert", "write", "returned"} =>
          job.resolutions = 1 /\ Len(job.resolved) = 1
    /\ Len(trace) = job.i
    /\ job.conv # << >> <=> job.pc = "write"
    /\ job.pc = "write" =>
          /\ job.i < job.a.total_frames
          /\ job.conv[1] = frame_conversion(job.a.images[job.i + 1], job.a)
    /\ \A k \in 1..Len(trace) :
          /\ trace[k].frame = k - 1
          /\ trace[k].success = (job.writes[k] = "ok")
    /\ job.pc = "returned" =>
          /\ Len(trace) = job.a.total_frames
          /\ last.op = "save" /\ last.trace = trace

C17_SaveReturnsInOrder ==
  /\ [](C17_ResolveThenFramesInOrder)
  /\ (job.pc # "idle") ~> (job.pc = "returned")

\* a batch whose first write failed and whose later frames were written
C17_Witness ==
  /\ job.pc = "returned"
  /\ job.a.total_frames = MaxFrames
  /\ job.writes[1] # "ok"
  /\ \A k \in 2..MaxFrames : job.acc.trace[k].success
  /\ Len(job.acc.saved_files) = MaxFrames - 1

\* the request taken statement by statement returns what save_aces_exr, taken
\* as one step, returns
StepwiseAgrees ==
  job.pc = "returned" =>
    LET r == save_aces_exr(<< >>, fs, << >>, TRUE, job.a, job.net, job.writes)
    IN /\ last = save_record(job.a, TRUE, job.net, job.writes, r)
       /\ cache = r.cache
       /\ outdir = r.outdir

====
